---- MODULE Spec2Model ----
(***************************************************************************)
(* Model of the ScrollyVideo component (src/src/components/                *)
(* scrolly-video.tsx): the frame-extraction effect, its cleanup, the       *)
(* frames state, the progress reports delivered to the caller, the mapping *)
(* of the scroll progress to a frame index and the drawing of the canvas.  *)
(*                                                                         *)
(* One step of the model is one task of the browser's event loop: the code *)
(* that runs between two suspension points (await) of extractFrames, one   *)
(* React commit, one timer callback, or one media event.                   *)
(*                                                                         *)
(* Times are exact rationals <<numerator, denominator>>; a duration is an  *)
(* integer number of 1/DurDen seconds, or Infinity (a live stream).  The   *)
(* scroll progress and the frameIndex motion value are integers in         *)
(* 1/ScrollDen.  Library behaviour the component relies on (framer-motion: *)
(* useTransform recomputes its value during every render and notifies the  *)
(* "change" subscribers when it changed; React: a render's state is the    *)
(* last queued setFrames call) is modelled at the call sites.              *)
(***************************************************************************)
EXTENDS Integers, Sequences, FiniteSets, TLC

\* ---- bounds of the model ----
MaxRuns == 2
MaxDuration == 3
MaxBaseFps == 2
MaxMaxFrames == 2
DurDen == 2
ScrollDen == 2
MaxStore == 3
MaxCanvas == 2
MaxBitmap == 2
MaxDpr == 2
MaxSide == 3
ProgressSteps == 4
MaxStreams == 2
MaxPackets == 3
MaxPts == 1

\* ---- constants of the program ----
HAVE_METADATA == 1
HAVE_FUTURE_DATA == 3
Infinity == 0 - 1
DefaultMaxWidth == 1920
DefaultMaxHeight == 1080
VideoWidth == 1920
VideoHeight == 1080
FullProgress == 100

Runs == 1..MaxRuns

VARIABLES
    mounted,        \* the component is mounted
    cur,            \* the run started by the latest execution of the extraction effect
    srcAvailable,   \* the current video source can be loaded
    readyState,     \* videoEl.readyState
    duration,       \* videoEl.duration, in 1/DurDen seconds, or Infinity
    videoSize,      \* videoEl.videoWidth and videoEl.videoHeight of the source
    currentTime,    \* videoEl.currentTime
    pc,             \* per run: the suspension point extractFrames is at
    isCancelled,    \* per run: the closure's isCancelled
    frameArray,     \* per run: the closure's frameArray (ids of bitmaps)
    loc,            \* per run: the locals of extractFrames
    cfg,            \* per run: the props captured by the effect's closure
    bitmaps,        \* every ImageBitmap created so far
    frames,         \* the frames state of the latest render
    pendingFrames,  \* the last setFrames call not yet rendered, if any
    timers,         \* pending 500 ms timers of the drawImage effect
    callerLog,      \* the calls of onLoadProgress since the latest cleanup, in order
    consoleErrors,  \* number of console.error calls
    seeks,          \* per run: the seek times, in order
    setFramesBy,    \* per run: the arrays extractFrames passed to setFrames
    scrollY,        \* scrollYProgress, in 1/ScrollDen
    frameIndex,     \* the frameIndex motion value, in 1/ScrollDen
    subscribers,    \* the "change" subscribers of frameIndex: the frames each closed over
    currentFrameRef, \* currentFrameRef.current
    canvas,         \* the canvas: its size and what was drawn since it was last cleared
    lastDraws,      \* the drawImage calls of the latest handler that made any
    app,            \* App: its progress state, the document and the loading overlay
    demux           \* one call of demuxVideoWithLibav: its inputs, locals and outcome

vars == <<mounted, cur, srcAvailable, readyState, duration, videoSize,
          currentTime, pc,
          isCancelled, frameArray, loc, cfg, bitmaps, frames, pendingFrames,
          timers, callerLog, consoleErrors, seeks, setFramesBy, scrollY,
          frameIndex, subscribers, currentFrameRef, canvas, lastDraws, app,
          demux>>

videoVars == <<srcAvailable, readyState, duration, videoSize>>
pageVars == <<app, demux>>
histVars == <<seeks, setFramesBy>>
viewVars == <<scrollY, frameIndex, subscribers, currentFrameRef, canvas,
              lastDraws>>

\* ---- pure helpers ----
Max(a, b) == IF a >= b THEN a ELSE b

Durations == (0..MaxDuration) \cup {Infinity}

Configs == [maxFrames : 1..MaxMaxFrames, baseFps : 1..MaxBaseFps,
            maxWidth : {DefaultMaxWidth}, maxHeight : {DefaultMaxHeight}]

\* the props of a caller that sets maxWidth and maxHeight
SizeConfigs == [maxFrames : 1..MaxMaxFrames, baseFps : 1..MaxBaseFps,
                maxWidth : 1..MaxSide, maxHeight : 1..MaxSide]

\* the natural sizes of a video
VideoSizes == (1..MaxSide) \X (1..MaxSide)

\* exactly one of the two props differs
OneChanged(c, d) == (c.maxFrames = d.maxFrames) # (c.baseFps = d.baseFps)

\* rational comparison, denominators are positive
TimeLess(a, b) == a[1] * b[2] < b[1] * a[2]

TimeLeq(a, b) == a[1] * b[2] <= b[1] * a[2]

\* Math.floor(totalDuration * baseFps)
TotalFrames(dur, fps) ==
    IF dur = Infinity THEN Infinity ELSE (dur * fps) \div DurDen

FrameSkipCeil(tf, mf) ==
    IF tf = Infinity THEN Infinity ELSE Max(1, (tf + mf - 1) \div mf)

\* Math.max(1, Math.floor(totalFrames / maxFrames))
FrameSkip(tf, mf) ==
    IF tf = Infinity THEN Infinity ELSE Max(1, tf \div mf)

LoopCondInclusive(fc, tf) == tf = Infinity \/ fc <= tf

\* frameCount < totalFrames
LoopCond(fc, tf) == tf = Infinity \/ fc < tf

\* (frameCount / totalFrames) * totalDuration is NaN: 0 * Infinity
SeekIsNaN(fc, tf, dur) == tf = Infinity

SeekTimeReversed(fc, tf, dur) == <<(tf - fc) * dur, tf * DurDen>>

\* (frameCount / totalFrames) * totalDuration
SeekTime(fc, tf, dur) == <<fc * dur, tf * DurDen>>

PushDropped(arr, b) == arr

\* frameArray.push(bitmap)
Push(arr, b) == Append(arr, b)

\* Math.floor((frameArray.length / maxFrames) * 100)
Progress(len, mf) == (len * 100) \div mf

\* if (progress < 100) onLoadProgress?.(progress)
Reports(p) == p < 100

MayCommitNever(r) == FALSE

MayCommitAlways(r) == TRUE

\* if (!isCancelled) setFrames(frameArray)
MayCommit(r) == ~isCancelled[r]

Entry(r, k, v) == [run |-> r, kind |-> k, val |-> v]

\* frameArray.forEach((bitmap) => bitmap.close())
CloseAll(bm, arr) ==
    [i \in DOMAIN bm |->
        IF \E k \in DOMAIN arr : arr[k] = i
        THEN [bm[i] EXCEPT !.closed = @ + 1]
        ELSE bm[i]]

\* ---- the view: scroll mapping and drawing ----

\* the positions scrollYProgress takes, in 1/ScrollDen, overscroll included
ScrollPositions == (0 - 1)..(ScrollDen + 1)

CanvasSizes == (1..MaxCanvas) \X (1..MaxCanvas)

BitmapSizes == (1..MaxBitmap) \X (1..MaxBitmap)

\* window.devicePixelRatio || 1
DevicePixelRatios == 1..MaxDpr

\* scaleCanvas for an element of CSS size rect: canvas.width and canvas.height
\* are set to rect * dpr, which clears the canvas and resets its context, and
\* the context is scaled by dpr
ScaleCanvas(rect, dpr) ==
    [size |-> <<rect[1] * dpr, rect[2] * dpr>>, dpr |-> dpr, layers |-> <<>>]

\* targetWidth and targetHeight of the extraction canvas
TargetSizeInverted(vw, vh, mw, mh) ==
    LET w1 == IF vw > mw THEN mw ELSE vw
        h1 == IF vw > mw THEN (mw * vh) \div vw ELSE vh
    IN IF h1 > mh THEN <<(mh * vh) \div vw, mh>> ELSE <<w1, h1>>

TargetSize(vw, vh, mw, mh) ==
    LET w1 == IF vw > mw THEN mw ELSE vw
        h1 == IF vw > mw THEN (mw * vh) \div vw ELSE vh
    IN IF h1 > mh THEN <<(mh * vw) \div vh, mh>> ELSE <<w1, h1>>

\* { clamp: true } of useTransform over the input range [0, 1]
Clamp(q) == IF q < 0 THEN 0 ELSE IF q > ScrollDen THEN ScrollDen ELSE q

\* useTransform(scrollYProgress, [0, 1], [0, frames.length - 1], { clamp: true })
Transform(q, len) == Clamp(q) * (len - 1)

MathFloor(v) == v \div ScrollDen

\* Math.round(v) for v >= 0: halves round up
MathRound(v) == (2 * v + ScrollDen) \div (2 * ScrollDen)

\* the change subscriber: if (v < 0 || v == null) v = 0; idx = Math.round(v)
ChangeIndex(v) == MathRound(IF v < 0 THEN 0 ELSE v)

ContainFit(cw, ch, bw, bh) ==
    LET shrink == cw * bh > ch * bw
        drawWidth == IF shrink THEN <<ch * bw, bh>> ELSE <<cw, 1>>
        drawHeight == IF shrink THEN <<ch, 1>> ELSE <<cw * bh, bw>>
    IN [drawWidth |-> drawWidth, drawHeight |-> drawHeight,
        offsetX |-> <<cw * drawWidth[2] - drawWidth[1], 2 * drawWidth[2]>>,
        offsetY |-> <<0, 1>>]

\* the "cover" rectangle of drawImage for a canvas of canvas.width = cw and
\* canvas.height = ch and a bw x bh bitmap, in the units of the context:
\* drawHeight = canvasWidth / aspectRatio, and if that is less than
\* canvasHeight the height is canvasHeight and the width follows
CoverFit(cw, ch, bw, bh) ==
    LET grow == cw * bh < ch * bw
        drawWidth == IF grow THEN <<ch * bw, bh>> ELSE <<cw, 1>>
        drawHeight == IF grow THEN <<ch, 1>> ELSE <<cw * bh, bw>>
    IN [drawWidth |-> drawWidth, drawHeight |-> drawHeight,
        offsetX |-> <<cw * drawWidth[2] - drawWidth[1], 2 * drawWidth[2]>>,
        offsetY |-> <<0, 1>>]

ClearRectSkipped(layers) == layers

\* ctx.clearRect(0, 0, canvasWidth, canvasHeight)
ClearRect(layers) == <<>>

\* drawImage(index) of the render whose frames are store, on canvas cnv:
\* nothing when frames[index] is missing; else the canvas is cleared, and
\* ctx.drawImage throws InvalidStateError for a closed bitmap
DrawImage(store, index, cnv, bm) ==
    IF index + 1 \notin DOMAIN store
    THEN [canvas |-> cnv, outcome |-> "noop"]
    ELSE LET b == store[index + 1]
             cleared == ClearRect(cnv.layers)
         IN IF bm[b].closed > 0
            THEN [canvas |-> [cnv EXCEPT !.layers = cleared],
                  outcome |-> "threw"]
            ELSE [canvas |-> [cnv EXCEPT !.layers = Append(cleared,
                                 [bitmap |-> b,
                                  rect |-> CoverFit(cnv.size[1], cnv.size[2],
                                                    bm[b].size[1], bm[b].size[2])])],
                  outcome |-> "drawn"]

\* one call of drawImage: by whom, on which frames, and whether those were
\* the frames of the latest render
DrawRecord(store, index, outcome, by, latestStore) ==
    [store |-> store, index |-> index, outcome |-> outcome, by |-> by,
     latest |-> (store = latestStore)]

\* frameIndex.on("change", ...) in the render body: one more subscriber, never
\* removed; subscribers that closed over equal frames act alike and are kept once
Subscribe(subs, store) ==
    IF \E i \in DOMAIN subs : subs[i] = store THEN subs ELSE Append(subs, store)

\* the change event: the subscribers run in the order they were added, each
\* calls the drawImage it closed over; a throw ends the notification
RECURSIVE Notify(_, _, _, _, _, _)
Notify(subs, i, idx, cnv, bm, latestStore) ==
    IF i > Len(subs)
    THEN [canvas |-> cnv, draws |-> <<>>]
    ELSE LET d == DrawImage(subs[i], idx, cnv, bm)
             rec == DrawRecord(subs[i], idx, d.outcome, "change", latestStore)
         IN IF d.outcome = "threw"
            THEN [canvas |-> d.canvas, draws |-> <<rec>>]
            ELSE LET rest == Notify(subs, i + 1, idx, d.canvas, bm, latestStore)
                 IN [canvas |-> rest.canvas, draws |-> <<rec>> \o rest.draws]

\* frameIndex is set to v: the subscribers are notified if the value changed
\* (currentFrameRef.current = idx comes before the draw in each subscriber)
Updated(v, latestStore) ==
    IF v = frameIndex
    THEN [ref |-> currentFrameRef, canvas |-> canvas, draws |-> <<>>]
    ELSE LET n == Notify(subscribers, 1, ChangeIndex(v), canvas, bitmaps,
                         latestStore)
         IN [ref |-> ChangeIndex(v), canvas |-> n.canvas, draws |-> n.draws]

InitLoc == [targetSize |-> <<0, 0>>, totalDuration |-> 0, totalFrames |-> 0,
            frameSkip |-> 1, frameCount |-> 0, canvasTime |-> <<0, 1>>]

\* the view after the first render and its effects: scrollYProgress and
\* frameIndex are 0, the render body subscribed once, scaleCanvas sized the
\* canvas for one of sizes and of dprs and drawImage(0) ran on the frames of that render
InitView(store, sizes, dprs) ==
    /\ scrollY = 0
    /\ frameIndex = Transform(0, Len(store))
    /\ subscribers = Subscribe(<< <<>> >>, store)
    /\ currentFrameRef = 0
    /\ \E sz \in sizes, dpr \in dprs :
          canvas = DrawImage(store, 0, ScaleCanvas(sz, dpr), bitmaps).canvas
    /\ lastDraws = <<DrawRecord(store, 0,
                                IF store = <<>> THEN "noop" ELSE "drawn",
                                "effect", store)>>

\* ---- App: the caller of ScrollyVideo ----

\* the progress values a caller of setProgress may pass
ProgressValues == {(i * FullProgress) \div ProgressSteps : i \in 0..ProgressSteps}

LoadingInclusive(progress) == progress <= FullProgress

\* const loading = progress < 100
Loading(progress) == progress < FullProgress

\* the overflow effect: document.documentElement.style.overflow
OverflowEffect(loading) == IF loading THEN "hidden" ELSE ""

\* the props of the loading overlay: animate.opacity and style.pointerEvents
Overlay(loading) ==
    [animate |-> IF loading THEN 1 ELSE 0,
     pointerEvents |-> IF loading THEN "auto" ELSE "none"]

\* App after its first render, its effects and the overlay's initial opacity:
\* queued is the pending setProgress value, effect the loading value of a
\* render whose overflow effect has not run yet, reported the latest value
\* passed to onLoadProgress, wasUnlocked whether overflow was ever released
AppMounted ==
    [progress |-> 0,
     queued |-> <<>>,
     effect |-> <<>>,
     overflow |-> OverflowEffect(Loading(0)),
     animate |-> Overlay(Loading(0)).animate,
     opacity |-> 1,
     pointerEvents |-> Overlay(Loading(0)).pointerEvents,
     reported |-> <<>>,
     wasUnlocked |-> FALSE]

\* the overflow effect of a render runs, if it is pending
FlushEffect(a) ==
    IF a.effect = <<>>
    THEN a
    ELSE [a EXCEPT !.effect = <<>>,
                   !.overflow = OverflowEffect(a.effect[1]),
                   !.wasUnlocked = @ \/ OverflowEffect(a.effect[1]) = ""]

\* ---- demuxVideoWithLibav ----
StreamTypes == {"video", "audio"}

\* the streams ff_init_demuxer_file may report
StreamLists == UNION {[1..n -> StreamTypes] : n \in 0..MaxStreams}

\* the packets av_read_frame yields before its first negative return, for a
\* file of ns streams: stream index, pts as AVPacket_pts gives it, and the
\* bytes, which are told apart by the packet's position in the file
PacketLists(ns) ==
    UNION {{[i \in 1..n |-> [stream |-> f[i][1], pts |-> f[i][2], data |-> i]] :
               f \in [1..n -> (0..(ns - 1)) \X (0..MaxPts)]} :
           n \in 0..MaxPackets}

\* the for loop of step 4, from index i
RECURSIVE FindVideoStream(_, _)
FindVideoStream(streams, i) ==
    IF i >= Len(streams) THEN 0 - 1
    ELSE IF streams[i + 1] = "video" THEN i
    ELSE FindVideoStream(streams, i + 1)

\* Array.prototype.sort is stable: p goes behind the packets whose pts is not larger
RECURSIVE InsertByPts(_, _)
InsertByPts(p, sorted) ==
    IF sorted = <<>> THEN <<p>>
    ELSE IF sorted[Len(sorted)].pts - p.pts <= 0 THEN Append(sorted, p)
    ELSE Append(InsertByPts(p, SubSeq(sorted, 1, Len(sorted) - 1)),
                sorted[Len(sorted)])

Unsorted(ps) == ps

\* packets.sort((a, b) => a.pts - b.pts)
RECURSIVE SortByPts(_)
SortByPts(ps) ==
    IF ps = <<>> THEN <<>>
    ELSE InsertByPts(ps[Len(ps)], SortByPts(SubSeq(ps, 1, Len(ps) - 1)))

\* no call of demuxVideoWithLibav is in progress
DemuxIdle ==
    [pc |-> "idle", ok |-> TRUE, streams |-> <<>>, file |-> <<>>, read |-> 0,
     videoStreamIndex |-> 0 - 1, packets |-> <<>>, result |-> <<>>]

\* demuxVideoWithLibav(url) was called and awaits fetch
DemuxCalls ==
    {[DemuxIdle EXCEPT !.pc = "fetch", !.ok = ok, !.streams = streams,
                       !.file = file] :
        ok \in BOOLEAN,
        <<streams, file>> \in UNION {{st} \X PacketLists(Len(st)) : st \in StreamLists}}

\* the page around the component: App as mounted, the demuxer not called
InitPage ==
    /\ app = AppMounted
    /\ demux = DemuxIdle

\* ---- initial state: the component has mounted and its effects have run ----
InitRun(videoSizes, configs) ==
    /\ mounted = TRUE
    /\ cur = 1
    /\ srcAvailable \in BOOLEAN
    /\ videoSize \in videoSizes
    /\ readyState = HAVE_METADATA - 1
    /\ duration = 0
    /\ currentTime = <<0, 1>>
    /\ pc = [r \in Runs |-> IF r = 1 THEN "probing" ELSE "idle"]
    /\ isCancelled = [r \in Runs |-> FALSE]
    /\ frameArray = [r \in Runs |-> <<>>]
    /\ loc = [r \in Runs |-> InitLoc]
    /\ \E c \in configs : cfg = [r \in Runs |-> c]
    /\ bitmaps = <<>>
    /\ frames = <<>>
    /\ pendingFrames = <<>>
    /\ timers = 1
    /\ callerLog = <<>>
    /\ consoleErrors = 0
    /\ seeks = [r \in Runs |-> <<>>]
    /\ setFramesBy = [r \in Runs |-> <<>>]
    /\ InitView(<<>>, {<<MaxCanvas, MaxCanvas>>}, {1})

\* the demo page: its video, maxWidth and maxHeight left at their defaults
Init == InitRun({<<VideoWidth, VideoHeight>>}, Configs) /\ InitPage

\* ---- the tail of extractFrames, from the places control can resume ----

\* catch (error) { console.error("Error extracting frames:", error) }
Catch(r, l, arr, log, errs) ==
    /\ pc' = [pc EXCEPT ![r] = "failed"]
    /\ loc' = [loc EXCEPT ![r] = l]
    /\ frameArray' = [frameArray EXCEPT ![r] = arr]
    /\ callerLog' = log
    /\ consoleErrors' = errs + 1
    /\ UNCHANGED <<currentTime, pendingFrames, seeks, setFramesBy>>

AfterLoopSilent(r, l, arr, log, errs) ==
    /\ pc' = [pc EXCEPT ![r] = "done"]
    /\ loc' = [loc EXCEPT ![r] = l]
    /\ frameArray' = [frameArray EXCEPT ![r] = arr]
    /\ callerLog' = log
    /\ consoleErrors' = errs
    /\ IF MayCommit(r)
       THEN /\ pendingFrames' = IF mounted THEN <<arr>> ELSE pendingFrames
            /\ setFramesBy' = [setFramesBy EXCEPT ![r] = Append(@, arr)]
       ELSE UNCHANGED <<pendingFrames, setFramesBy>>
    /\ UNCHANGED <<currentTime, seeks>>

\* after the loop: onLoadProgress(100); if (!isCancelled) setFrames(frameArray)
AfterLoop(r, l, arr, log, errs) ==
    /\ pc' = [pc EXCEPT ![r] = "done"]
    /\ loc' = [loc EXCEPT ![r] = l]
    /\ frameArray' = [frameArray EXCEPT ![r] = arr]
    /\ callerLog' = Append(log, Entry(r, "final", 100))
    /\ consoleErrors' = errs
    /\ IF MayCommit(r)
       THEN /\ pendingFrames' = IF mounted THEN <<arr>> ELSE pendingFrames
            /\ setFramesBy' = [setFramesBy EXCEPT ![r] = Append(@, arr)]
       ELSE UNCHANGED <<pendingFrames, setFramesBy>>
    /\ UNCHANGED <<currentTime, seeks>>

\* the for loop, entered at its condition with frameCount = l.frameCount
ForLoop(r, l, arr, log, errs) ==
    IF LoopCond(l.frameCount, l.totalFrames) /\ ~isCancelled[r]
    THEN IF SeekIsNaN(l.frameCount, l.totalFrames, l.totalDuration)
         THEN Catch(r, l, arr, log, errs)
         ELSE /\ currentTime' = SeekTime(l.frameCount, l.totalFrames, l.totalDuration)
              /\ seeks' = [seeks EXCEPT ![r] = Append(@, currentTime')]
              /\ pc' = [pc EXCEPT ![r] = "seeked"]
              /\ loc' = [loc EXCEPT ![r] = l]
              /\ frameArray' = [frameArray EXCEPT ![r] = arr]
              /\ callerLog' = log
              /\ consoleErrors' = errs
              /\ UNCHANGED <<pendingFrames, setFramesBy>>
    ELSE AfterLoop(r, l, arr, log, errs)

\* steps 3 and 4, then the loop
ComputeAndLoop(r) ==
    LET tf == TotalFrames(duration, cfg[r].baseFps)
        l == [loc[r] EXCEPT !.targetSize =
                                TargetSize(videoSize[1], videoSize[2],
                                           cfg[r].maxWidth, cfg[r].maxHeight),
                            !.totalDuration = duration,
                            !.totalFrames = tf,
                            !.frameSkip = FrameSkip(tf, cfg[r].maxFrames),
                            !.frameCount = 0]
    IN ForLoop(r, l, frameArray[r], callerLog, consoleErrors)

\* step 5c is over: if (isCancelled) break; ctx.drawImage; createImageBitmap
Buffered(r) ==
    IF isCancelled[r]
    THEN AfterLoop(r, loc[r], frameArray[r], callerLog, consoleErrors)
    ELSE /\ loc' = [loc EXCEPT ![r].canvasTime = currentTime]
         /\ pc' = [pc EXCEPT ![r] = "bitmap"]
         /\ UNCHANGED <<frameArray, callerLog, consoleErrors, currentTime,
                        pendingFrames, seeks, setFramesBy>>

\* ---- media events and the resumptions of extractFrames ----

\* the video element fires loadedmetadata
LoadedMetadata ==
    /\ srcAvailable
    /\ readyState < HAVE_METADATA
    /\ readyState' = HAVE_METADATA
    /\ \E d \in Durations : duration' = d
    /\ UNCHANGED <<viewVars, mounted, cur, srcAvailable, videoSize, pageVars, currentTime, pc,
                   isCancelled,
                   frameArray, loc, cfg, bitmaps, frames, pendingFrames,
                   timers, callerLog, consoleErrors, histVars>>

\* step 1 resumes, then videoEl.play() is called
MetadataResolved(r) ==
    /\ pc[r] = "probing"
    /\ readyState >= HAVE_METADATA
    /\ pc' = [pc EXCEPT ![r] = "play"]
    /\ UNCHANGED <<viewVars, mounted, cur, pageVars, videoVars, currentTime, isCancelled,
                   frameArray, loc, cfg, bitmaps, frames, pendingFrames,
                   timers, callerLog, consoleErrors, histVars>>

\* await videoEl.play() resolves: the 200 ms wait starts
PlayResolved(r) ==
    /\ pc[r] = "play"
    /\ pc' = [pc EXCEPT ![r] = "playWait"]
    /\ UNCHANGED <<viewVars, mounted, cur, pageVars, videoVars, currentTime, isCancelled,
                   frameArray, loc, cfg, bitmaps, frames, pendingFrames,
                   timers, callerLog, consoleErrors, histVars>>

\* await videoEl.play() rejects: console.warn, then steps 3 to 5
PlayRejected(r) ==
    /\ pc[r] = "play"
    /\ ComputeAndLoop(r)
    /\ UNCHANGED <<viewVars, mounted, cur, pageVars, videoVars, isCancelled, cfg, bitmaps, frames,
                   timers>>

\* the 200 ms wait is over: videoEl.pause(), then steps 3 to 5
PlayWaitDone(r) ==
    /\ pc[r] = "playWait"
    /\ ComputeAndLoop(r)
    /\ UNCHANGED <<viewVars, mounted, cur, pageVars, videoVars, isCancelled, cfg, bitmaps, frames,
                   timers>>

\* seeked fires; the video has, or has not yet, buffered enough to draw
Seeked(r) ==
    /\ pc[r] = "seeked"
    /\ \E rs \in {HAVE_FUTURE_DATA - 1, HAVE_FUTURE_DATA} :
          /\ readyState' = rs
          /\ IF rs < HAVE_FUTURE_DATA
             THEN /\ pc' = [pc EXCEPT ![r] = "canplay"]
                  /\ UNCHANGED <<frameArray, loc, callerLog, consoleErrors,
                                 currentTime, pendingFrames, seeks, setFramesBy>>
             ELSE Buffered(r)
    /\ UNCHANGED <<viewVars, mounted, cur, srcAvailable, duration, videoSize, pageVars,
                   isCancelled, cfg,
                   bitmaps, frames, timers>>

\* canplay fires: if (isCancelled) break, else the while condition is false
CanPlay(r) ==
    /\ pc[r] = "canplay"
    /\ readyState' = HAVE_FUTURE_DATA
    /\ Buffered(r)
    /\ UNCHANGED <<viewVars, mounted, cur, srcAvailable, duration, videoSize, pageVars,
                   isCancelled, cfg,
                   bitmaps, frames, timers>>

\* createImageBitmap resolves: push, report progress, next iteration
\* (createImageBitmap rejects a canvas with a zero width or height)
BitmapResolved(r) ==
    /\ pc[r] = "bitmap"
    /\ loc[r].targetSize[1] > 0
    /\ loc[r].targetSize[2] > 0
    /\ LET id == Len(bitmaps) + 1
           arr == Push(frameArray[r], id)
           progress == Progress(Len(arr), cfg[r].maxFrames)
           log == IF Reports(progress)
                  THEN Append(callerLog, Entry(r, "frame", progress))
                  ELSE callerLog
           l == [loc[r] EXCEPT !.frameCount = @ + loc[r].frameSkip]
       IN /\ bitmaps' = Append(bitmaps,
                 [run |-> r, time |-> loc[r].canvasTime, closed |-> 0,
                   size |-> loc[r].targetSize])
          /\ ForLoop(r, l, arr, log, consoleErrors)
    /\ UNCHANGED <<viewVars, mounted, cur, pageVars, videoVars, isCancelled, cfg, frames, timers>>

\* createImageBitmap rejects: console.error, next iteration
BitmapRejected(r) ==
    /\ pc[r] = "bitmap"
    /\ LET l == [loc[r] EXCEPT !.frameCount = @ + loc[r].frameSkip]
       IN ForLoop(r, l, frameArray[r], callerLog, consoleErrors + 1)
    /\ UNCHANGED <<viewVars, mounted, cur, pageVars, videoVars, isCancelled, cfg, bitmaps, frames,
                   timers>>

\* ---- React ----

\* the cleanup of the extraction effect, for the run r it belongs to
Cleanup(r, stillMounted) ==
    /\ isCancelled' = [isCancelled EXCEPT ![r] = TRUE]
    /\ bitmaps' = CloseAll(bitmaps, frameArray[r])
    /\ frameArray' = [frameArray EXCEPT ![r] = <<>>]
    /\ pendingFrames' = IF stillMounted THEN << <<>> >> ELSE pendingFrames
    /\ callerLog' = <<Entry(r, "cleanup", 0)>>

\* a dependency of the extraction effect changed (the video, or one of
\* maxFrames and baseFps): cleanup, then a new run that runs to its first await
EffectRerun ==
    /\ mounted
    /\ cur < MaxRuns
    /\ Cleanup(cur, TRUE)
    /\ cur' = cur + 1
    /\ \/ /\ cfg' = [cfg EXCEPT ![cur + 1] = cfg[cur]]
          /\ readyState' = HAVE_METADATA - 1
          /\ \E a \in BOOLEAN : srcAvailable' = a
          /\ UNCHANGED <<duration, videoSize, pageVars>>
       \/ /\ \E c \in Configs :
                /\ OneChanged(cfg[cur], c)
                /\ cfg' = [cfg EXCEPT ![cur + 1] = c]
          /\ UNCHANGED <<videoVars, pageVars>>
    /\ pc' = [pc EXCEPT ![cur + 1] =
                 IF readyState' < HAVE_METADATA THEN "probing" ELSE "play"]
    /\ UNCHANGED <<viewVars, mounted, currentTime, loc, frames, timers, consoleErrors,
                   histVars>>

\* the component unmounts: cleanup only
Unmount ==
    /\ mounted
    /\ mounted' = FALSE
    /\ Cleanup(cur, FALSE)
    /\ UNCHANGED <<viewVars, cur, pageVars, videoVars, currentTime, pc, loc, cfg, frames, timers,
                   consoleErrors, histVars>>

\* React renders the queued setFrames calls.  In the render body useTransform
\* recomputes frameIndex for the new frames.length, which notifies the
\* subscribers of the earlier renders if the value changed (a throw there is
\* reported and the render is retried, the value then being unchanged), and
\* the body subscribes once more.  drawImage changes with frames, so the
\* drawImage effect runs: drawImage(0) and a new 500 ms timer
Render ==
    /\ mounted
    /\ pendingFrames # <<>>
    /\ LET f == pendingFrames[1]
           u == Updated(Transform(scrollY, Len(f)), f)
           e == DrawImage(f, 0, u.canvas, bitmaps)
       IN /\ frames' = f
          /\ frameIndex' = Transform(scrollY, Len(f))
          /\ currentFrameRef' = u.ref
          /\ subscribers' = Subscribe(subscribers, f)
          /\ canvas' = e.canvas
          /\ lastDraws' = u.draws \o <<DrawRecord(f, 0, e.outcome, "effect", f)>>
    /\ pendingFrames' = <<>>
    /\ timers' = timers + 1
    /\ UNCHANGED <<scrollY, mounted, cur, pageVars, videoVars, currentTime, pc,
                   isCancelled, frameArray, loc, cfg, bitmaps, callerLog,
                   consoleErrors, histVars>>

TimerCallbackSilent(log) == log

\* the callback of the timer: onLoadProgress?.(100)
TimerCallback(log) == Append(log, Entry(0, "timer", 100))

\* setTimeout(() => { onLoadProgress?.(100) }, 500) fires
TimerFires ==
    /\ timers > 0
    /\ timers' = timers - 1
    /\ callerLog' = TimerCallback(callerLog)
    /\ UNCHANGED <<viewVars, mounted, cur, pageVars, videoVars, currentTime, pc, isCancelled,
                   frameArray, loc, cfg, bitmaps, frames, pendingFrames,
                   consoleErrors, histVars>>

\* ---- the user scrolls and resizes ----

\* scrollYProgress changes to q; useTransform's update sets frameIndex with
\* the transformer of the latest render
Scroll(q) ==
    /\ mounted
    /\ q # scrollY
    /\ scrollY' = q
    /\ LET u == Updated(Transform(q, Len(frames)), frames)
       IN /\ frameIndex' = Transform(q, Len(frames))
          /\ currentFrameRef' = u.ref
          /\ canvas' = u.canvas
          /\ lastDraws' = IF u.draws = <<>> THEN lastDraws ELSE u.draws
    /\ UNCHANGED <<subscribers, mounted, cur, pageVars, videoVars, currentTime, pc,
                   isCancelled, frameArray, loc, cfg, bitmaps, frames,
                   pendingFrames, timers, callerLog, consoleErrors, histVars>>

\* the element is resized to the CSS size sz: handleResize, registered by the
\* latest run of the resize effect, calls scaleCanvas() and then
\* drawImage(currentFrameRef.current)
Resize(sz) ==
    /\ mounted
    /\ ScaleCanvas(sz, canvas.dpr).size # canvas.size
    /\ LET d == DrawImage(frames, currentFrameRef,
                          ScaleCanvas(sz, canvas.dpr), bitmaps)
       IN /\ canvas' = d.canvas
          /\ lastDraws' = <<DrawRecord(frames, currentFrameRef, d.outcome,
                                       "resize", frames)>>
    /\ UNCHANGED <<scrollY, frameIndex, subscribers, currentFrameRef, mounted,
                   cur, pageVars, videoVars, currentTime, pc, isCancelled, frameArray,
                   loc, cfg, bitmaps, frames, pendingFrames, timers,
                   callerLog, consoleErrors, histVars>>

Next ==
    \/ LoadedMetadata
    \/ \E r \in Runs : MetadataResolved(r)
    \/ \E r \in Runs : PlayResolved(r)
    \/ \E r \in Runs : PlayRejected(r)
    \/ \E r \in Runs : PlayWaitDone(r)
    \/ \E r \in Runs : Seeked(r)
    \/ \E r \in Runs : CanPlay(r)
    \/ \E r \in Runs : BitmapResolved(r)
    \/ \E r \in Runs : BitmapRejected(r)
    \/ EffectRerun
    \/ Unmount
    \/ Render
    \/ TimerFires

Spec == Init /\ [][Next]_vars

\* the component with its props fixed: the extraction effect runs once, and
\* its cleanup runs at unmount only
NextOneRun ==
    \/ LoadedMetadata
    \/ \E r \in Runs : MetadataResolved(r)
    \/ \E r \in Runs : PlayResolved(r)
    \/ \E r \in Runs : PlayRejected(r)
    \/ \E r \in Runs : PlayWaitDone(r)
    \/ \E r \in Runs : Seeked(r)
    \/ \E r \in Runs : CanPlay(r)
    \/ \E r \in Runs : BitmapResolved(r)
    \/ \E r \in Runs : BitmapRejected(r)
    \/ Unmount
    \/ Render
    \/ TimerFires

SpecOneRun == Init /\ [][NextOneRun]_vars

\* one run of the extraction on a video of any natural size, for a caller that
\* sets maxWidth and maxHeight
InitSizes == InitRun(VideoSizes, SizeConfigs) /\ InitPage

SpecSizes == InitSizes /\ [][NextOneRun]_vars

\* ---- App ----

\* the component as mounted by App, left alone while the page is looked at
ComponentMounted ==
    /\ InitRun({<<VideoWidth, VideoHeight>>}, Configs)
    /\ srcAvailable
    /\ cfg[1].maxFrames = MaxMaxFrames
    /\ cfg[1].baseFps = MaxBaseFps

componentVars == <<mounted, cur, videoVars, currentTime, pc, isCancelled,
                   frameArray, loc, cfg, bitmaps, frames, pendingFrames, timers,
                   callerLog, consoleErrors, histVars, viewVars>>

\* onLoadProgress(p), which is setProgress(p): the update is queued, the
\* latest one of a batch wins
OnLoadProgress(p) ==
    /\ app' = [app EXCEPT !.queued = <<p>>, !.reported = <<p>>]
    /\ UNCHANGED <<componentVars, demux>>

\* App renders with the queued progress: a pending effect of the previous
\* render is flushed first; the overlay gets its props; the overflow effect
\* is scheduled when loading changed
AppRender ==
    /\ app.queued # <<>>
    /\ LET a == FlushEffect(app)
           progress == a.queued[1]
           loading == Loading(progress)
       IN app' = [a EXCEPT !.progress = progress,
                           !.queued = <<>>,
                           !.animate = Overlay(loading).animate,
                           !.pointerEvents = Overlay(loading).pointerEvents,
                           !.effect = IF loading # Loading(a.progress)
                                      THEN <<loading>> ELSE <<>>]
    /\ UNCHANGED <<componentVars, demux>>

\* the overflow effect of the latest render runs
AppEffect ==
    /\ app.effect # <<>>
    /\ app' = FlushEffect(app)
    /\ UNCHANGED <<componentVars, demux>>

\* the overlay's 0.5 s opacity transition reaches its target
FadeDone ==
    /\ app.opacity # app.animate
    /\ app' = [app EXCEPT !.opacity = app.animate]
    /\ UNCHANGED <<componentVars, demux>>

InitApp ==
    /\ ComponentMounted
    /\ app = AppMounted
    /\ demux = DemuxIdle

NextApp ==
    \/ \E p \in ProgressValues : OnLoadProgress(p)
    \/ AppRender
    \/ AppEffect
    \/ FadeDone

SpecApp == InitApp /\ [][NextApp]_vars

\* ---- demuxVideoWithLibav ----

\* fetch resolves; steps 1 to 6: throw unless resp.ok, open the demuxer, look
\* the video stream up, throw if there is none
Fetched ==
    /\ demux.pc = "fetch"
    /\ LET index == FindVideoStream(demux.streams, 0)
       IN demux' = IF ~demux.ok \/ index < 0
                   THEN [demux EXCEPT !.pc = "threw"]
                   ELSE [demux EXCEPT !.pc = "read", !.videoStreamIndex = index]
    /\ UNCHANGED <<componentVars, app>>

\* av_read_frame resolves: a packet of the video stream is pushed; a negative
\* return ends the loop, the packets are sorted and returned
ReadFrame ==
    /\ demux.pc = "read"
    /\ demux' =
          IF demux.read < Len(demux.file)
          THEN LET pkt == demux.file[demux.read + 1]
               IN [demux EXCEPT !.read = @ + 1,
                                !.packets = IF pkt.stream = demux.videoStreamIndex
                                            THEN Append(@, pkt) ELSE @]
          ELSE [demux EXCEPT !.pc = "returned",
                             !.packets = SortByPts(@),
                             !.result = SortByPts(demux.packets)]
    /\ UNCHANGED <<componentVars, app>>

InitDemux ==
    /\ ComponentMounted
    /\ app = AppMounted
    /\ demux \in DemuxCalls

NextDemux ==
    \/ Fetched
    \/ ReadFrame

SpecDemux == InitDemux /\ [][NextDemux]_vars

\* the component with a user who scrolls within the page and resizes it while
\* the props change; the sources decode without a fault, the component stays
\* mounted and the 500 ms timers, which only report progress, stay pending
NextUI ==
    \/ LoadedMetadata
    \/ \E r \in Runs : MetadataResolved(r)
    \/ \E r \in Runs : PlayResolved(r)
    \/ \E r \in Runs : PlayWaitDone(r)
    \/ \E r \in Runs : Seeked(r)
    \/ \E r \in Runs : CanPlay(r)
    \/ \E r \in Runs : BitmapResolved(r)
    \/ EffectRerun
    \/ Render
    \/ \E q \in 0..ScrollDen : Scroll(q)
    \/ \E sz \in CanvasSizes : Resize(sz)

SpecUI == Init /\ [][NextUI]_vars

\* the view alone: the first run has completed with a store of n bitmaps of
\* one size, the store is rendered and the timers have fired
InitSettled ==
    /\ InitPage
    /\ mounted = TRUE
    /\ cur = 1
    /\ srcAvailable = TRUE
    /\ videoSize = <<VideoWidth, VideoHeight>>
    /\ readyState = HAVE_FUTURE_DATA
    /\ duration = 0
    /\ currentTime = <<0, 1>>
    /\ pc = [r \in Runs |-> IF r = 1 THEN "done" ELSE "idle"]
    /\ isCancelled = [r \in Runs |-> FALSE]
    /\ loc = [r \in Runs |-> InitLoc]
    /\ \E c \in Configs : cfg = [r \in Runs |-> c]
    /\ \E n \in 0..MaxStore, bs \in BitmapSizes :
          LET store == [i \in 1..n |-> i]
          IN /\ bitmaps = [i \in 1..n |-> [run |-> 1, time |-> <<0, 1>>,
                                           closed |-> 0, size |-> bs]]
             /\ frameArray = [r \in Runs |-> IF r = 1 THEN store ELSE <<>>]
             /\ frames = store
             /\ setFramesBy = [r \in Runs |-> IF r = 1 THEN <<store>> ELSE <<>>]
             /\ InitView(store, CanvasSizes, DevicePixelRatios)
    /\ pendingFrames = <<>>
    /\ timers = 0
    /\ callerLog = <<Entry(1, "final", 100), Entry(0, "timer", 100)>>
    /\ consoleErrors = 0
    /\ seeks = [r \in Runs |-> <<>>]

NextView ==
    \/ \E q \in ScrollPositions : Scroll(q)
    \/ \E sz \in CanvasSizes : Resize(sz)

SpecView == InitSettled /\ [][NextView]_vars

\* the timer of the drawImage effect fires once it is due
SpecOneRunFair == SpecOneRun /\ WF_vars(TimerFires)

\* every media event a run awaits (loadedmetadata of a source that can load,
\* seeked, canplay) eventually fires, and play(), the 200 ms wait and
\* createImageBitmap eventually settle
SpecOneRunLive ==
    /\ SpecOneRun
    /\ WF_vars(LoadedMetadata)
    /\ \A r \in Runs :
          /\ WF_vars(MetadataResolved(r))
          /\ WF_vars(PlayResolved(r) \/ PlayRejected(r))
          /\ WF_vars(PlayWaitDone(r))
          /\ WF_vars(Seeked(r))
          /\ WF_vars(CanPlay(r))
          /\ WF_vars(BitmapResolved(r) \/ BitmapRejected(r))

\* ---- what the claims speak about ----

\* the run has ended (extractFrames returned)
Ended(r) == pc[r] \in {"done", "failed"}

\* the ids of the bitmaps run r created
BitmapsOf(r) == {b \in DOMAIN bitmaps : bitmaps[b].run = r}

\* the values of the calls of onLoadProgress in callerLog
Values == [i \in DOMAIN callerLog |-> callerLog[i].val]

NonDecreasing(s) == \A i, j \in DOMAIN s : i < j => s[i] <= s[j]

\* the times of the bitmaps of an array of bitmap ids
TimesOf(arr) == [i \in DOMAIN arr |-> bitmaps[arr[i]].time]

StrictlyIncreasingTimes(ts) ==
    \A i, j \in DOMAIN ts : i < j => TimeLess(ts[i], ts[j])

\* the arrays that hold frames of run r: its frameArray and what it committed
ArraysOf(r) == {frameArray[r]} \cup {setFramesBy[r][k] : k \in DOMAIN setFramesBy[r]}

\* the number of calls by which an error of run r was handed to the caller
ErrorsSurfaced(r) ==
    Cardinality({i \in DOMAIN callerLog :
                    callerLog[i].run = r /\ callerLog[i].kind = "error"})

\* C1: once the cleanup of a run has run (its isCancelled is set), the run
\* never calls setFrames: no step adds to the arrays it passed to setFrames.
C1_NoCommitAfterCleanup ==
    [][\A r \in Runs : isCancelled[r] => setFramesBy'[r] = setFramesBy[r]]_vars

\* a cancelled run that created a bitmap reached the code after its loop,
\* after its cleanup, and committed nothing
C1_Witness ==
    \E r \in Runs :
        /\ isCancelled[r]
        /\ pc[r] = "done"
        /\ setFramesBy[r] = <<>>
        /\ BitmapsOf(r) # {}
        /\ \E i \in DOMAIN callerLog : callerLog[i] = Entry(r, "final", 100)

\* C2: when a cancelled run has ended, every bitmap it created has been
\* closed, exactly once.
C2_AllReleasedOnce ==
    \A r \in Runs :
        (isCancelled[r] /\ Ended(r)) =>
            \A b \in BitmapsOf(r) : bitmaps[b].closed = 1

\* C3: when a run has completed without being cancelled, the values passed to
\* onLoadProgress during it are non-decreasing and the last one is 100.
C3_ProgressMonotone ==
    (cur = 1 /\ pc[cur] = "done" /\ ~isCancelled[cur]) =>
        /\ NonDecreasing(Values)
        /\ Values # <<>>
        /\ Values[Len(Values)] = 100

\* C4: after the cleanup of a run has reported 0, that run calls
\* onLoadProgress no more: every later call comes from the new run (or from
\* the component's timer).
C4_CancelledRunSilent ==
    \A i \in DOMAIN callerLog :
        callerLog[i].kind \in {"frame", "final"} => ~isCancelled[callerLog[i].run]

\* C5: while the current run has not completed, every value reported to the
\* caller is at most 99.
C5_Below100UntilComplete ==
    (mounted /\ pc[cur] # "done") => \A i \in DOMAIN callerLog : callerLog[i].val <= 99

\* C6: a run visits at most maxFrames sample timestamps, and the arrays it
\* holds or commits, and the frames state, have at most maxFrames frames.
C6_AtMostMaxFrames ==
    \A r \in Runs :
        /\ Len(seeks[r]) <= cfg[r].maxFrames
        /\ \A a \in ArraysOf(r) : Len(a) <= cfg[r].maxFrames

\* C7: the seek times of a run are strictly increasing and lie in
\* [0, duration), and the frames of every array of the run, and of the frames
\* state, are in that order: their times are seek times of the run, strictly
\* increasing.
C7_SeekOrder ==
    /\ \A r \in Runs :
          /\ StrictlyIncreasingTimes(seeks[r])
          /\ \A i \in DOMAIN seeks[r] :
                /\ TimeLeq(<<0, 1>>, seeks[r][i])
                /\ TimeLess(seeks[r][i], <<loc[r].totalDuration, DurDen>>)
          /\ \A a \in ArraysOf(r) :
                /\ StrictlyIncreasingTimes(TimesOf(a))
                /\ \A i \in DOMAIN a :
                      \E k \in DOMAIN seeks[r] : seeks[r][k] = bitmaps[a[i]].time
    /\ StrictlyIncreasingTimes(TimesOf(frames))

\* a run committed at least two frames
C7_Witness ==
    \E r \in Runs :
        /\ setFramesBy[r] # <<>>
        /\ Len(setFramesBy[r][1]) >= 2
        /\ Len(frames) >= 2

\* C8: if the current run has failed, or waits for metadata that will never
\* arrive, no onLoadProgress(100) has been delivered.
C8_NoCompletionOnFailure ==
    (mounted /\ (pc[cur] = "failed" \/ (pc[cur] = "probing" /\ ~srcAvailable))) =>
        \A i \in DOMAIN callerLog : callerLog[i].val # 100

\* C9: a run that has failed left the frames state empty and its error was
\* handed to the caller exactly once.
C9_FailureSurfacedOnce ==
    \A r \in Runs :
        pc[r] = "failed" => (frames = <<>> /\ ErrorsSurfaced(r) = 1)

\* the step of run r in which createImageBitmap rejected
BitmapFailedStep(r) == pc[r] = "bitmap" /\ pc'[r] # "bitmap" /\ bitmaps' = bitmaps

\* C10: a rejected createImageBitmap leaves the frame array as it was, reports
\* no progress for the sample and moves on to the next timestamp; and every
\* array a run commits holds exactly the bitmaps the run created, one per
\* sample that decoded, in the order they were created.
C10_FailedSampleSkipped ==
    /\ [][\A r \in Runs :
            BitmapFailedStep(r) =>
                /\ frameArray'[r] = frameArray[r]
                /\ loc'[r].frameCount = loc[r].frameCount + loc[r].frameSkip
                /\ \A i \in DOMAIN callerLog' :
                      i > Len(callerLog) => callerLog'[i].kind = "final"
                /\ pc'[r] \in {"seeked", "done"}]_vars
    /\ [](\A r \in Runs :
            \A k \in DOMAIN setFramesBy[r] :
                LET a == setFramesBy[r][k]
                IN /\ {a[i] : i \in DOMAIN a} = BitmapsOf(r)
                   /\ \A i, j \in DOMAIN a : i < j => a[i] < a[j])

\* a run committed its frames after one sample failed and another decoded
C10_Witness ==
    \E r \in Runs :
        /\ setFramesBy[r] # <<>>
        /\ Len(setFramesBy[r][1]) >= 1
        /\ Len(seeks[r]) > Len(setFramesBy[r][1])

\* ---- claims about the view ----

\* the clamped scroll progress, in 1/ScrollDen
ClampedScroll == Max(0, IF scrollY > ScrollDen THEN ScrollDen ELSE scrollY)

\* idx is the integer nearest to num / den, the upper one of two
NearestTo(idx, num, den) ==
    /\ 2 * den * idx - den <= 2 * num
    /\ 2 * num < 2 * den * idx + den

\* C11: with a store of frameCount > 0 frames and any scroll progress p, below
\* 0 and above 1 included, the index handed to the renderer is
\* round(clamp(p, 0, 1) * (frameCount - 1)): it is what currentFrameRef holds
\* and what every draw of the latest scroll change or resize was called with.
C11_IndexIsRoundedProgress ==
    Len(frames) > 0 =>
        /\ NearestTo(currentFrameRef, ClampedScroll * (Len(frames) - 1), ScrollDen)
        /\ \A i \in DOMAIN lastDraws :
              lastDraws[i].by \in {"change", "resize"} =>
                  lastDraws[i].index = currentFrameRef

\* an overscroll past the end drew the last frame of a full store
C11_Witness ==
    /\ scrollY > ScrollDen
    /\ Len(frames) = MaxStore
    /\ currentFrameRef = MaxStore - 1
    /\ \E i \in DOMAIN lastDraws :
          /\ lastDraws[i].by = "change"
          /\ lastDraws[i].outcome = "drawn"
          /\ lastDraws[i].index = MaxStore - 1

\* C12: every index used to look up a frame, by a scroll update, the initial
\* drawImage(0) or the resize redraw, lies in [0, length - 1] of the store it
\* is looked up in when that store is not empty; a draw on a store of at most
\* one frame does not throw, and on an empty store it leaves the canvas alone.
C12_IndexInStore ==
    \A i \in DOMAIN lastDraws :
        LET d == lastDraws[i]
        IN /\ Len(d.store) > 0 => d.index \in 0..(Len(d.store) - 1)
           /\ Len(d.store) <= 1 => d.outcome # "threw"
           /\ Len(d.store) = 0 => d.outcome = "noop"

\* C13: a resize while the frames state is not empty redraws the frame that
\* was displayed before it, at the new size: the canvas is not left blank and
\* shows the same frame as before the resize.
C13_ResizeRedraws ==
    [][(canvas'.size # canvas.size /\ Len(frames) > 0) =>
          /\ canvas'.layers # <<>>
          /\ canvas.layers # <<>> =>
                canvas'.layers[1].bitmap = canvas.layers[1].bitmap]_vars

\* ---- claims about the extraction, continued ----

\* run r has read the duration: it is past steps 1 to 4 of extractFrames
PastSetup(r) == pc[r] \notin {"idle", "probing", "play", "playWait"}

\* C14: a run that reads a duration of 0 (so totalFrames is 0) never seeks and
\* takes no sample, throws nothing, and ends with an empty frames state: the
\* loop is not entered, the run is done, and all it commits is the empty array.
C14_ZeroDurationEmpty ==
    \A r \in Runs :
        (PastSetup(r) /\ loc[r].totalDuration = 0) =>
            /\ loc[r].totalFrames = 0
            /\ pc[r] = "done"
            /\ consoleErrors = 0
            /\ seeks[r] = <<>>
            /\ BitmapsOf(r) = {}
            /\ frameArray[r] = <<>>
            /\ \A k \in DOMAIN setFramesBy[r] : setFramesBy[r][k] = <<>>
            /\ frames = <<>>
            /\ pendingFrames \in {<<>>, << <<>> >>}

\* a run over a loaded video of duration 0 has ended and its empty frames
\* are rendered
C14_Witness ==
    /\ readyState >= HAVE_METADATA
    /\ duration = 0
    /\ pc[1] = "done"
    /\ ~isCancelled[1]
    /\ loc[1].totalDuration = 0
    /\ setFramesBy[1] = << <<>> >>
    /\ pendingFrames = <<>>
    /\ frames = <<>>

\* the last progress the caller observed makes App's loading false
\* (loading = progress < 100)
LoadingOver == callerLog # <<>> /\ callerLog[Len(callerLog)].val >= 100

\* C15: when the source is unavailable, so that the metadata never loads and
\* the run never leaves the probing wait, the page does not stay loading
\* forever: eventually the caller observes a progress that ends loading.
C15_LoadingEnds == ~srcAvailable => <>LoadingOver

\* the run is still waiting for the metadata of an unavailable source and the
\* caller has been told 100
C15_Witness ==
    /\ ~srcAvailable
    /\ mounted
    /\ pc[1] = "probing"
    /\ readyState < HAVE_METADATA
    /\ LoadingOver

\* ---- claims about drawing ----

RatEq(a, b) == a[1] * b[2] = b[1] * a[2]

\* a length of the context, in pixels of the canvas: the context is scaled by
\* canvas.dpr
OnSurface(len) == <<len[1] * canvas.dpr, len[2]>>

\* C16: cover fit.  For a frame of aspect ratio a_f drawn on a surface of
\* aspect ratio a_s: if a_f > a_s the draw height is the surface height, the
\* draw width exceeds the surface width and offsetX is
\* (surfaceWidth - drawWidth) / 2; if a_f < a_s the draw width is the surface
\* width, the draw height exceeds the surface height and offsetY is 0.
C16_CoverFit ==
    \A i \in DOMAIN canvas.layers :
        LET rect == canvas.layers[i].rect
            bw == bitmaps[canvas.layers[i].bitmap].size[1]
            bh == bitmaps[canvas.layers[i].bitmap].size[2]
            sw == canvas.size[1]
            sh == canvas.size[2]
            dw == OnSurface(rect.drawWidth)
            dh == OnSurface(rect.drawHeight)
            ox == OnSurface(rect.offsetX)
            oy == OnSurface(rect.offsetY)
        IN /\ bw * sh > sw * bh =>
                /\ RatEq(dh, <<sh, 1>>)
                /\ TimeLess(<<sw, 1>>, dw)
                /\ 2 * ox[1] * dw[2] + dw[1] * ox[2] = sw * ox[2] * dw[2]
           /\ bw * sh < sw * bh =>
                /\ RatEq(dw, <<sw, 1>>)
                /\ TimeLess(<<sh, 1>>, dh)
                /\ RatEq(oy, <<0, 1>>)

\* the canvas after drawImage(k) of the latest render is called on canvas cnv
Drawn(k, cnv) == DrawImage(frames, k, cnv, bitmaps).canvas

\* C17: drawing is idempotent.  With the surface size and the frames
\* unchanged, a second drawImage(k) right after a first leaves the canvas as
\* the first call left it; so a repeat of the call a handler has just made
\* changes nothing.
C17_DrawIdempotent ==
    /\ \A k \in 0..MaxStore : Drawn(k, Drawn(k, canvas)) = Drawn(k, canvas)
    /\ lastDraws # <<>> =>
          LET d == lastDraws[Len(lastDraws)]
          IN d.latest => Drawn(d.index, canvas) = canvas

\* a scroll has drawn a frame other than the first, and the canvas shows it
C17_Witness ==
    /\ lastDraws # <<>>
    /\ LET d == lastDraws[Len(lastDraws)]
       IN /\ d.by = "change"
          /\ d.outcome = "drawn"
          /\ d.latest
          /\ d.index > 0
          /\ Len(canvas.layers) = 1
          /\ canvas.layers[1].bitmap = frames[d.index + 1]

\* C18: once the isCancelled flag of a run is set, the run commits no further
\* frame: at no suspension point (seeked, canplay, createImageBitmap) does a
\* step append a bitmap to its frameArray.
C18_NoAppendAfterCancel ==
    [][\A r \in Runs :
          isCancelled[r] => Len(frameArray'[r]) <= Len(frameArray[r])]_vars

\* ---- claims about the subscribers and the released bitmaps ----

\* C19: every draw triggered by a change of the scroll progress uses the
\* latest frames: once the frames have been replaced, no change subscriber of
\* an earlier render takes a bitmap from the frames of that earlier render.
C19_ScrollDrawsLatest ==
    \A i \in DOMAIN lastDraws :
        (lastDraws[i].by = "change" /\ lastDraws[i].outcome # "noop") =>
            lastDraws[i].latest

\* C20: the renderer never draws a released bitmap: no scroll, resize or
\* initial-draw handler passes to ctx.drawImage a bitmap that a cleanup of the
\* extraction effect has closed (the call that throws in the model).
C20_NoReleasedBitmapDrawn ==
    \A i \in DOMAIN lastDraws :
        lastDraws[i].by \in {"change", "resize", "effect"} =>
            lastDraws[i].outcome # "threw"

\* ---- claims about teardown and termination ----

\* run r has nothing left to do: it never started, it has ended, or it waits
\* for the metadata of a source that cannot be loaded
RunQuiet(r) ==
    \/ pc[r] \in {"idle", "done", "failed"}
    \/ pc[r] = "probing" /\ ~srcAvailable /\ readyState < HAVE_METADATA

\* the component is unmounted and no callback of it is pending
Quiesced == ~mounted /\ timers = 0 /\ \A r \in Runs : RunQuiet(r)

\* C21: once teardown has quiesced, the last progress the caller observed is
\* a terminal value, 0 or 100, never an intermediate percentage.
C21_TerminalProgressAtRest ==
    Quiesced => /\ callerLog # <<>>
                /\ callerLog[Len(callerLog)].val \in {0, 100}

\* at rest after a teardown during which a cancelled run still reported an
\* intermediate percentage
C21_Witness ==
    /\ Quiesced
    /\ \E i \in DOMAIN callerLog :
          /\ callerLog[i].kind = "frame"
          /\ callerLog[i].val > 0
          /\ callerLog[i].val < 100
          /\ isCancelled[callerLog[i].run]

\* the reports run r itself made to the caller, in order
ReportsOf(r) ==
    SelectSeq(callerLog, LAMBDA e : e.run = r /\ e.kind \in {"frame", "final"})

\* run r ended Complete: its frames are committed with setFrames and its last
\* progress report is 100
Complete(r) ==
    /\ pc[r] = "done"
    /\ setFramesBy[r] # <<>>
    /\ ReportsOf(r) # <<>>
    /\ ReportsOf(r)[Len(ReportsOf(r))].val = 100

\* C22, as claimed: when every awaited event and every createImageBitmap
\* settles, every run eventually reaches a terminal state, and a run that is
\* never cancelled ends Complete.
C22_NeverCancelledCompletes ==
    /\ srcAvailable => <>Ended(1)
    /\ [](\A r \in Runs : (Ended(r) /\ ~isCancelled[r]) => Complete(r))

\* C22, amended: when every awaited event and every createImageBitmap
\* settles, every run eventually reaches a terminal state; a run that is never
\* cancelled ends Complete when the duration it read is finite, and ends
\* Failed, with nothing committed and no report, when it is Infinity.
C22_RunsTerminate ==
    /\ srcAvailable => <>Ended(1)
    /\ [](\A r \in Runs :
            (Ended(r) /\ ~isCancelled[r]) =>
                IF loc[r].totalDuration = Infinity
                THEN pc[r] = "failed" /\ setFramesBy[r] = <<>> /\ ReportsOf(r) = <<>>
                ELSE Complete(r))

\* a run that was never cancelled sampled a frame and ended Complete
C22_Witness ==
    /\ mounted
    /\ ~isCancelled[1]
    /\ Complete(1)
    /\ frameArray[1] # <<>>

\* ---- C23 ----
Min(a, b) == IF a <= b THEN a ELSE b

\* the run has executed step 3, which sizes the offscreen canvas
Sized(r) == pc[r] \in {"seeked", "canplay", "bitmap", "done", "failed"}

\* C23: for every natural size of the video and every maxWidth and maxHeight,
\* all positive, the target width a run computes is at most the smaller of
\* videoWidth and maxWidth, and the target height at most the smaller of
\* videoHeight and maxHeight
C23_TargetWithinBounds ==
    \A r \in Runs :
        Sized(r) =>
            /\ loc[r].targetSize[1] <= Min(videoSize[1], cfg[r].maxWidth)
            /\ loc[r].targetSize[2] <= Min(videoSize[2], cfg[r].maxHeight)

\* a run sized its canvas for a video that is both wider than maxWidth and,
\* once narrowed, still taller than maxHeight: both bounds were applied
C23_Witness ==
    \E r \in Runs :
        /\ Sized(r)
        /\ videoSize[1] > cfg[r].maxWidth
        /\ (cfg[r].maxWidth * videoSize[2]) \div videoSize[1] > cfg[r].maxHeight
        /\ loc[r].targetSize[2] = cfg[r].maxHeight
        /\ loc[r].targetSize[1] < cfg[r].maxWidth

\* ---- C24 ----
CeilDiv(a, b) == (a + b - 1) \div b

\* the loop of the run ended at its condition: every timestamp was sampled
LoopRanOut(r) ==
    /\ pc[r] = "done"
    /\ loc[r].totalFrames # Infinity
    /\ loc[r].frameCount >= loc[r].totalFrames

Settled == app.queued = <<>> /\ app.effect = <<>> /\ app.opacity = app.animate

\* the progress that was reported last; before any report, the initial state
LastReported == IF app.reported = <<>> THEN 0 ELSE app.reported[1]

Locked ==
    /\ app.overflow = "hidden"
    /\ app.opacity = 1
    /\ app.pointerEvents = "auto"

Released ==
    /\ app.overflow = ""
    /\ app.opacity = 0
    /\ app.pointerEvents = "none"

\* C25: once App has settled after any sequence of onLoadProgress calls, the
\* page is locked (overflow hidden, overlay opaque and taking pointer events)
\* if the latest reported progress is below 100, and released (overflow
\* restored, overlay transparent and passing pointer events) if it is 100
C25_LockedIffLoading ==
    Settled => IF LastReported < FullProgress THEN Locked ELSE Released

\* the page was released by a report of 100 and a later report below 100
\* locked it again
C25_Witness ==
    /\ Settled
    /\ app.wasUnlocked
    /\ app.reported # <<>>
    /\ LastReported < FullProgress
    /\ Locked

\* ---- C26 ----
VideoStreams == {i \in 0..(Len(demux.streams) - 1) : demux.streams[i + 1] = "video"}

\* the packets of the file that belong to the first video stream
FirstVideoPackets ==
    {demux.file[i] : i \in {j \in 1..Len(demux.file) :
        /\ demux.file[j].stream \in VideoStreams
        /\ \A v \in VideoStreams : demux.file[j].stream <= v}}

\* C26: a call that returns, returns exactly the packets of the first video
\* stream, each once, in an order of non-decreasing pts; a call whose fetch
\* response is not ok or whose file has no video stream throws and returns
\* no packets
C26_DemuxResult ==
    /\ demux.pc = "returned" =>
          /\ demux.ok
          /\ VideoStreams # {}
          /\ {demux.result[i] : i \in 1..Len(demux.result)} =
                FirstVideoPackets
          /\ \A i, j \in 1..Len(demux.result) :
                i < j => /\ demux.result[i] # demux.result[j]
                         /\ demux.result[i].pts <= demux.result[j].pts
    /\ (demux.pc \notin {"idle", "fetch"} /\ (~demux.ok \/ VideoStreams = {})) =>
          /\ demux.pc = "threw"
          /\ demux.result = <<>>

\* a call returned two packets whose order in the file was by decreasing pts,
\* and left a packet of another stream out
C26_Witness ==
    /\ demux.pc = "returned"
    /\ Len(demux.result) = 2
    /\ demux.result[1].data > demux.result[2].data
    /\ demux.result[1].pts < demux.result[2].pts
    /\ Len(demux.file) > Len(demux.result)

====
